---- MODULE Spec2Model ----
(***************************************************************************)
(* Model of UEFI-extract: the two container backends (lenovo_iso,          *)
(* lenovo_exe), the firmware-tree search of uefi-extract.py and the        *)
(* installers loop that drives them.                                       *)
(*                                                                         *)
(* Text is modelled as sequences of one-character strings, so that the     *)
(* regular-expression search, str.split, str.lower and list.sort are       *)
(* computed the way Python computes them.                                  *)
(***************************************************************************)
EXTENDS Integers, Sequences, FiniteSets, TLC

(* ------------------------------------------------------------------ *)
(* Bounds of the model                                                 *)
(* ------------------------------------------------------------------ *)
\* number of input files in a batch
MaxInstallers == 2
\* number of entries the external tool lists for one installer
MaxListed == 2
\* number of nodes of a firmware tree below its root
MaxNodes == 3
\* byte length of a capsule file
MaxFileLen == 3
\* number of read() and size() calls made on one capsule handle
MaxHandleCalls == 4

(* ------------------------------------------------------------------ *)
(* Text helpers                                                        *)
(* ------------------------------------------------------------------ *)
Digits == {"0", "1", "2", "3", "4", "5", "6", "7", "8", "9"}

\* code point order of the characters the model uses (list.sort compares by it)
Ord(c) ==
    CASE c = " " -> 32 [] c = "\"" -> 34 [] c = "(" -> 40 [] c = ")" -> 41
      [] c = "-" -> 45 [] c = "." -> 46 [] c = "/" -> 47
      [] c = "1" -> 49 [] c = "2" -> 50 [] c = "9" -> 57
      [] c = "A" -> 65 [] c = "B" -> 66 [] c = "C" -> 67 [] c = "D" -> 68
      [] c = "F" -> 70 [] c = "H" -> 72 [] c = "L" -> 76 [] c = "R" -> 82
      [] c = "S" -> 83 [] c = "T" -> 84 [] c = "X" -> 88
      [] c = "a" -> 97 [] c = "b" -> 98 [] c = "c" -> 99 [] c = "d" -> 100
      [] c = "i" -> 105 [] c = "r" -> 114 [] c = "t" -> 116 [] c = "x" -> 120
      [] c = "~" -> 126
      [] OTHER -> 0

\* Python's str < str
RECURSIVE StrLess(_, _)
StrLess(a, b) ==
    IF b = <<>> THEN FALSE
    ELSE IF a = <<>> THEN TRUE
    ELSE IF Head(a) # Head(b) THEN Ord(Head(a)) < Ord(Head(b))
    ELSE StrLess(Tail(a), Tail(b))

StrLeq(a, b) == a = b \/ StrLess(a, b)

\* str.join over a list of strings
RECURSIVE Join(_, _)
Join(sep, parts) ==
    IF parts = <<>> THEN <<>>
    ELSE IF Len(parts) = 1 THEN parts[1]
    ELSE parts[1] \o sep \o Join(sep, Tail(parts))

\* str.split(sep) for a one-character separator: empty fields are kept
RECURSIVE SplitOn(_, _)
SplitOn(s, sep) ==
    IF \A i \in 1..Len(s) : s[i] # sep THEN <<s>>
    ELSE LET k == CHOOSE i \in 1..Len(s) :
                      s[i] = sep /\ \A j \in 1..(i - 1) : s[j] # sep
         IN  <<SubSeq(s, 1, k - 1)>> \o SplitOn(SubSeq(s, k + 1, Len(s)), sep)

\* str.split() without argument: fields separated by runs of blanks, none empty
RECURSIVE SplitBlank(_)
SplitBlank(s) ==
    IF s = <<>> THEN <<>>
    ELSE IF Head(s) = " " THEN SplitBlank(Tail(s))
    ELSE LET stop == IF \E i \in 1..Len(s) : s[i] = " "
                     THEN CHOOSE i \in 1..Len(s) :
                              s[i] = " " /\ \A j \in 1..(i - 1) : s[j] # " "
                     ELSE Len(s) + 1
         IN  <<SubSeq(s, 1, stop - 1)>> \o SplitBlank(SubSeq(s, stop, Len(s)))

\* path.split('/')[-1]
LastSegment(path) ==
    LET parts == SplitOn(path, "/") IN parts[Len(parts)]

\* re.search(BIOS_CAPSULE_EXTENSION, s) is not None, for the pattern \.FL\d+ :
\* the pattern is found anywhere in s
BIOS_CAPSULE_EXTENSION(s) ==
    \E i \in 1..Len(s) :
        /\ i + 3 <= Len(s)
        /\ s[i] = "."
        /\ s[i + 1] = "F"
        /\ s[i + 2] = "L"
        /\ s[i + 3] \in Digits

\* list.sort() of a list of strings (insertion into a sorted list)
RECURSIVE SortedInsert(_, _)
SortedInsert(sorted, x) ==
    IF sorted = <<>> THEN <<x>>
    ELSE IF StrLeq(Head(sorted), x)
         THEN <<Head(sorted)>> \o SortedInsert(Tail(sorted), x)
         ELSE <<x>> \o sorted

RECURSIVE ListSort(_)
ListSort(l) ==
    IF l = <<>> THEN <<>>
    ELSE SortedInsert(ListSort(SubSeq(l, 1, Len(l) - 1)), l[Len(l)])

Range(l) == {l[i] : i \in 1..Len(l)}

(* ------------------------------------------------------------------ *)
(* dict([(path.split('/')[-1], path) for path in paths])               *)
(* A dict is a sequence of <<key, value>> in insertion order; a        *)
(* repeated key keeps its place and takes the later value.             *)
(* ------------------------------------------------------------------ *)
DictKeys(d) == [i \in 1..Len(d) |-> d[i][1]]

DictHas(d, k) == \E i \in 1..Len(d) : d[i][1] = k

DictGet(d, k) == d[CHOOSE i \in 1..Len(d) : d[i][1] = k][2]

DictSet(d, k, v) ==
    IF DictHas(d, k)
    THEN [i \in 1..Len(d) |-> IF d[i][1] = k THEN <<k, v>> ELSE d[i]]
    ELSE Append(d, <<k, v>>)

RECURSIVE DictOfPaths(_)
DictOfPaths(paths) ==
    IF paths = <<>> THEN <<>>
    ELSE LET p == paths[Len(paths)]
         IN  DictSet(DictOfPaths(SubSeq(paths, 1, Len(paths) - 1)), LastSegment(p), p)

(* ------------------------------------------------------------------ *)
(* Names and containers the model draws its inputs from                *)
(* ------------------------------------------------------------------ *)
FLASH == <<"F", "L", "A", "S", "H">>
DOT == <<".">>
DOTDOT == <<".", ".">>

\* directory entries of a FAT volume: 8.3 name, and a long name when the
\* name does not fit 8.3 (x.FL1.b has two dots)
E_BIOS == [Name |-> <<"B", ".", "F", "L", "1">>, IsLfn |-> FALSE,
           LongName |-> <<>>, IsDir |-> FALSE]
E_BAK  == [Name |-> <<"X", "F", "L", "1", "~", "1", ".", "B">>, IsLfn |-> TRUE,
           LongName |-> <<"x", ".", "F", "L", "1", ".", "b">>, IsDir |-> FALSE]
E_TXT  == [Name |-> <<"R", ".", "T">>, IsLfn |-> FALSE,
           LongName |-> <<>>, IsDir |-> FALSE]
E_TOP  == [Name |-> <<"T", ".", "F", "L", "2">>, IsLfn |-> FALSE,
           LongName |-> <<>>, IsDir |-> FALSE]

DirEntry(name) == [Name |-> name, IsLfn |-> FALSE, LongName |-> <<>>, IsDir |-> TRUE]

FileEntries == <<E_BIOS, E_BAK, E_TXT>>
SubDirNames == <<<<"A">>, <<"C">>>>

\* what a chosen set of (subdirectory, file) pairs looks like as a volume:
\* FLASH holds ".", "..", the subdirectories and one plain file; a
\* subdirectory holds ".", ".." and its files
RECURSIVE EntriesIn(_, _, _)
EntriesIn(content, d, k) ==
    IF k > Len(FileEntries) THEN <<>>
    ELSE (IF <<d, k>> \in content THEN <<FileEntries[k]>> ELSE <<>>)
         \o EntriesIn(content, d, k + 1)

VolumeOf(content) ==
    [top  |-> <<DirEntry(DOT), DirEntry(DOTDOT)>>
              \o [i \in 1..Len(SubDirNames) |-> DirEntry(SubDirNames[i])]
              \o <<E_TOP>>,
     dirs |-> [i \in 1..Len(SubDirNames) |->
                  <<DirEntry(DOT), DirEntry(DOTDOT)>> \o EntriesIn(content, i, 1)]]

Volumes ==
    {VolumeOf(c) : c \in SUBSET ((1..Len(SubDirNames)) \X (1..Len(FileEntries)))}

\* volume.opendir(FLASH/<d>).iterator()
OpenDir(volume, d) ==
    IF \E i \in 1..Len(SubDirNames) : SubDirNames[i] = d
    THEN volume.dirs[CHOOSE i \in 1..Len(SubDirNames) : SubDirNames[i] = d]
    ELSE <<>>

\* paths inside an installer, as the external tool names them
P_BIOS_A == <<"a", "/", "B", ".", "F", "L", "1">>
P_BIOS_C == <<"c", "/", "B", ".", "F", "L", "1">>
P_BAK    == <<"a", "/", "x", ".", "F", "L", "1", ".", "b">>
P_DIR    == <<"D", ".", "F", "L", "1", "/", "r", ".", "t">>
P_TXT    == <<"a", "/", "r", ".", "t">>
ArchivePaths == {P_BIOS_A, P_BIOS_C, P_BAK, P_DIR, P_TXT}

\* the tool's listings: up to MaxListed different paths, in any order
Listings ==
    {l \in UNION {[1..n -> ArchivePaths] : n \in 0..MaxListed} :
        \A i, j \in 1..Len(l) : i # j => l[i] # l[j]}

\* stdout of `innoextract -l`: a header, one line  - "<path>" (9 B)  per
\* entry, and the empty field after the last newline
InnoLine(path) == <<" ", "-", " ", "\"">> \o path \o <<"\"", " ", "(", "9", " ", "B", ")">>
InnoHeader == <<"L", "i", "s", "t", "i", "n", "g", " ", "\"", "S", "\"">>
InnoStdout(listing) ==
    <<InnoHeader>> \o [i \in 1..Len(listing) |-> InnoLine(listing[i])] \o <<<<>>>>

(* ------------------------------------------------------------------ *)
(* lenovo_iso._find_candidate_capsules                                 *)
(* ------------------------------------------------------------------ *)
\* subdirs: the short names of the directory entries of FLASH
RECURSIVE IsoSubdirs(_)
IsoSubdirs(entries) ==
    IF entries = <<>> THEN <<>>
    ELSE (IF Head(entries).IsDir THEN <<Head(entries).Name>> ELSE <<>>)
         \o IsoSubdirs(Tail(entries))

f_name(file) == IF file.IsLfn THEN file.LongName ELSE file.Name

\* the inner loop over one subdirectory d
RECURSIVE IsoMatchesIn(_, _)
IsoMatchesIn(d, entries) ==
    IF entries = <<>> THEN <<>>
    ELSE (IF BIOS_CAPSULE_EXTENSION(f_name(Head(entries)))
          THEN <<Join(<<"/">>, <<FLASH, d, f_name(Head(entries))>>)>>
          ELSE <<>>)
         \o IsoMatchesIn(d, Tail(entries))

\* the outer loop over subdirs, skipping '.' and '..'
RECURSIVE IsoFileInfo(_, _)
IsoFileInfo(volume, subdirs) ==
    IF subdirs = <<>> THEN <<>>
    ELSE (IF Head(subdirs) \in {DOT, DOTDOT} THEN <<>>
          ELSE IsoMatchesIn(Head(subdirs), OpenDir(volume, Head(subdirs))))
         \o IsoFileInfo(volume, Tail(subdirs))

Iso_find_candidate_capsules(volume) ==
    ListSort(IsoFileInfo(volume, IsoSubdirs(volume.top)))

(* ------------------------------------------------------------------ *)
(* lenovo_exe._find_candidate_capsules (the part after the tool ran)   *)
(* ------------------------------------------------------------------ *)
\* line_split[1][1:-1]
SecondFieldUnquoted(line) ==
    LET field == SplitBlank(line)[2] IN SubSeq(field, 2, Len(field) - 1)

RECURSIVE Exe_find_candidate_capsules(_)
Exe_find_candidate_capsules(lines) ==
    IF lines = <<>> THEN <<>>
    ELSE (IF BIOS_CAPSULE_EXTENSION(Head(lines))
          THEN <<SecondFieldUnquoted(Head(lines))>>
          ELSE <<>>)
         \o Exe_find_candidate_capsules(Tail(lines))

(* ------------------------------------------------------------------ *)
(* State                                                               *)
(* ------------------------------------------------------------------ *)
VARIABLES
    \* the installers loop of uefi-extract.py
    parser,             \* "lenovo_iso" or "lenovo_exe": args.parser
    ninst,              \* len(installers)
    which_innoextract,  \* whether shutil.which('innoextract') finds the tool
    idx,                \* position of installer_path in installers (1-based)
    pc,                 \* where the loop stands
    exc,                \* the exception propagating, or "none"
    raised_in,          \* the step that raised it, or "none"
    held,               \* resources acquired and not released by close()/cleanup()
    calls,              \* innoextract runs made for the current FileParser
    checks_passed,      \* the current FileParser passed both checks of __init__
    mbr,                \* lba_start of the four partitions parsed, or <<>>
    part_start_offset,  \* offset the volume is opened at, or -1
    enumerated,         \* every path the container enumerated
    paths,              \* what _find_candidate_capsules returned
    capsules,           \* FileParser.capsules
    cap_i,              \* position of caps in f.list_capsules()
    attempted,          \* installers a FileParser was constructed for
    processed,          \* capsules of the current container handed to find_PEs, with the outcome
    \* one call of find_PEs
    search,
    \* one capsule handle
    handle

batch_vars == <<parser, ninst, which_innoextract, idx, pc, exc, raised_in, held, calls,
                checks_passed, mbr, part_start_offset, enumerated, paths,
                capsules, cap_i, attempted, processed>>
vars == <<batch_vars, search, handle>>

LBA_BLOCK_SIZE == 512

\* values of a partition's 32-bit lba_start the model draws from
LbaValues == {0, 1, 63}
PartitionTables == [1..4 -> LbaValues]

Idle == [at |-> "idle"]

(* ------------------------------------------------------------------ *)
(* FileParser of both backends                                         *)
(* ------------------------------------------------------------------ *)
\* a FileParser object before __init__ ran
FreshParser ==
    /\ calls' = 0
    /\ checks_passed' = FALSE
    /\ mbr' = <<>>
    /\ part_start_offset' = -1
    /\ enumerated' = {}
    /\ paths' = <<>>
    /\ capsules' = <<>>
    /\ cap_i' = 0
    /\ processed' = {}

\* an exception that leaves the installers loop ends the program
Abort(e, step) == pc' = "aborted" /\ exc' = e /\ raised_in' = step

\* for installer_path in installers: with parser.FileParser(installer_path)
NextInstaller ==
    /\ pc = "loop"
    /\ idx < ninst
    /\ idx' = idx + 1
    /\ attempted' = attempted \cup {idx + 1}
    /\ pc' = "init"
    /\ FreshParser
    /\ UNCHANGED <<parser, ninst, which_innoextract, exc, raised_in, held, search, handle>>

BatchDone ==
    /\ pc = "loop"
    /\ idx >= ninst
    /\ pc' = "done"
    /\ UNCHANGED <<parser, ninst, which_innoextract, idx, exc, raised_in, held, calls,
                   checks_passed, mbr, part_start_offset, enumerated, paths,
                   capsules, cap_i, attempted, processed, search, handle>>

\* lenovo_iso.FileParser.__init__
Iso_init ==
    /\ pc = "init"
    /\ parser = "lenovo_iso"
    /\ \E isfile \in BOOLEAN :
          IF ~isfile
          THEN Abort("FileNotFoundError", "__init__") /\ UNCHANGED checks_passed
          ELSE pc' = "enter" /\ checks_passed' = TRUE /\ UNCHANGED <<exc, raised_in>>
    /\ UNCHANGED <<parser, ninst, which_innoextract, idx, held, calls, mbr,
                   part_start_offset, enumerated, paths, capsules, cap_i,
                   attempted, processed, search, handle>>

\* the same with the scan of the other partitions starting one entry late
PartitionsSupported_late_scan(lba_start) ==
    ~ (lba_start[1] = 0 \/ \E i \in 3..Len(lba_start) : lba_start[i] # 0)

\* the condition of the `if` of lenovo_iso.FileParser.__enter__ negated:
\* the layout is accepted
PartitionsSupported(lba_start) ==
    ~ (lba_start[1] = 0 \/ \E i \in 2..Len(lba_start) : lba_start[i] # 0)

\* every path of a file in an immediate subdirectory of FLASH, under the name
\* the volume shows it by
IsoEnumerated(volume) ==
    UNION {{Join(<<"/">>, <<FLASH, SubDirNames[i], f_name(e)>>) :
               e \in {x \in Range(volume.dirs[i]) : ~x.IsDir}} :
           i \in 1..Len(SubDirNames)}

\* lenovo_iso.FileParser.__enter__
Iso_enter ==
    /\ pc = "enter"
    /\ parser = "lenovo_iso"
    /\ \E outcome \in {"open fails", "no boot image", "not a FAT volume", "ok"},
          table \in PartitionTables, volume \in Volumes :
          IF outcome = "open fails"
          THEN /\ Abort("OSError", "__enter__")
               /\ UNCHANGED <<held, mbr, part_start_offset, enumerated, paths, capsules>>
          ELSE /\ held' = held \cup {"iso_handle"}
               /\ IF outcome = "no boot image"
                  THEN /\ Abort("ValueError", "__enter__")
                       /\ UNCHANGED <<mbr, part_start_offset, enumerated, paths, capsules>>
                  ELSE /\ mbr' = table
                       /\ IF ~PartitionsSupported(table)
                          THEN /\ Abort("ValueError", "__enter__")
                               /\ UNCHANGED <<part_start_offset, enumerated, paths, capsules>>
                          ELSE /\ part_start_offset' = table[1] * LBA_BLOCK_SIZE
                               /\ IF outcome = "not a FAT volume"
                                  THEN /\ Abort("Exception", "__enter__")
                                       /\ UNCHANGED <<enumerated, paths, capsules>>
                                  ELSE /\ enumerated' = IsoEnumerated(volume)
                                       /\ paths' = Iso_find_candidate_capsules(volume)
                                       /\ capsules' = DictOfPaths(Iso_find_candidate_capsules(volume))
                                       /\ pc' = "caps"
                                       /\ UNCHANGED <<exc, raised_in>>
    /\ UNCHANGED <<parser, ninst, which_innoextract, idx, calls, checks_passed,
                   cap_i, attempted, processed, search, handle>>

\* the same without the shutil.which check
Exe_init_without_which ==
    /\ pc = "init"
    /\ parser = "lenovo_exe"
    /\ held' = held \cup {"tempdir"}
    /\ \E isfile \in BOOLEAN :
          IF ~isfile
          THEN Abort("FileNotFoundError", "__init__") /\ UNCHANGED checks_passed
          ELSE pc' = "enter" /\ checks_passed' = which_innoextract /\ UNCHANGED <<exc, raised_in>>
    /\ UNCHANGED <<parser, ninst, which_innoextract, idx, calls, mbr,
                   part_start_offset, enumerated, paths, capsules, cap_i,
                   attempted, processed, search, handle>>

\* lenovo_exe.FileParser.__init__
Exe_init ==
    /\ pc = "init"
    /\ parser = "lenovo_exe"
    /\ held' = held \cup {"tempdir"}
    /\ \E isfile \in BOOLEAN :
          IF ~isfile
          THEN Abort("FileNotFoundError", "__init__") /\ UNCHANGED checks_passed
          ELSE IF ~which_innoextract
          THEN Abort("RuntimeError", "__init__") /\ UNCHANGED checks_passed
          ELSE pc' = "enter" /\ checks_passed' = TRUE /\ UNCHANGED <<exc, raised_in>>
    /\ UNCHANGED <<parser, ninst, which_innoextract, idx, calls, mbr,
                   part_start_offset, enumerated, paths, capsules, cap_i,
                   attempted, processed, search, handle>>

\* lenovo_exe.FileParser.__enter__, with _find_candidate_capsules
Exe_enter ==
    /\ pc = "enter"
    /\ parser = "lenovo_exe"
    /\ calls' = calls + 1
    /\ \E returncode \in {0, 1}, listing \in Listings :
          IF returncode # 0
          THEN /\ Abort("RuntimeError", "__enter__")
               /\ UNCHANGED <<enumerated, paths, capsules>>
          ELSE /\ enumerated' = Range(listing)
               /\ paths' = Exe_find_candidate_capsules(InnoStdout(listing))
               /\ capsules' = DictOfPaths(Exe_find_candidate_capsules(InnoStdout(listing)))
               /\ pc' = "caps"
               /\ UNCHANGED <<exc, raised_in>>
    /\ UNCHANGED <<parser, ninst, which_innoextract, idx, held, checks_passed,
                   mbr, part_start_offset, cap_i, attempted, processed, search, handle>>

\* FileParser.list_capsules of both backends
list_capsules == DictKeys(capsules)

\* for caps in f.list_capsules()
NextCapsule ==
    /\ pc = "caps"
    /\ IF cap_i < Len(list_capsules)
       THEN cap_i' = cap_i + 1 /\ pc' = "c_enter"
       ELSE pc' = "exit" /\ UNCHANGED cap_i
    /\ UNCHANGED <<parser, ninst, which_innoextract, idx, exc, raised_in, held, calls,
                   checks_passed, mbr, part_start_offset, enumerated, paths,
                   capsules, attempted, processed, search, handle>>

\* f.open(caps) and LenovoISOCapsule.__enter__
Iso_capsule_enter ==
    /\ pc = "c_enter"
    /\ parser = "lenovo_iso"
    /\ DictHas(capsules, list_capsules[cap_i])
    /\ held' = held \cup {"capsule_handle"}
    /\ pc' = "search"
    /\ UNCHANGED <<parser, ninst, which_innoextract, idx, exc, raised_in, calls,
                   checks_passed, mbr, part_start_offset, enumerated, paths,
                   capsules, cap_i, attempted, processed, search, handle>>

\* f.open(caps) and LenovoExeCapsule.__enter__, with _extract_capsule
Exe_capsule_enter ==
    /\ pc = "c_enter"
    /\ parser = "lenovo_exe"
    /\ DictHas(capsules, list_capsules[cap_i])
    /\ calls' = calls + 1
    /\ \E returncode \in {0, 1} :
          IF returncode # 0
          THEN exc' = "RuntimeError" /\ raised_in' = "capsule __enter__" /\ pc' = "exit" /\ UNCHANGED held
          ELSE held' = held \cup {"capsule_handle"} /\ pc' = "search" /\ UNCHANGED <<exc, raised_in>>
    /\ UNCHANGED <<parser, ninst, which_innoextract, idx, checks_passed, mbr,
                   part_start_offset, enumerated, paths, capsules, cap_i,
                   attempted, processed, search, handle>>

\* the body of `with f.open(caps) as c`: find_PEs(c.read(), args.GUID) and
\* the writes; FileNotFoundError and NotImplementedError are caught
FindAndWrite ==
    /\ pc = "search"
    /\ \E outcome \in {"written", "FileNotFoundError", "NotImplementedError", "Exception"} :
          /\ processed' = processed \cup {<<cap_i, outcome>>}
          /\ exc' = (IF outcome = "Exception" THEN "Exception" ELSE "none")
          /\ raised_in' = (IF outcome = "Exception" THEN "find_PEs" ELSE "none")
    /\ pc' = "c_exit"
    /\ UNCHANGED <<parser, ninst, which_innoextract, idx, held, calls,
                   checks_passed, mbr, part_start_offset, enumerated, paths,
                   capsules, cap_i, attempted, search, handle>>

\* __exit__ of the capsule of both backends
Capsule_exit ==
    /\ pc = "c_exit"
    /\ held' = held \ {"capsule_handle"}
    /\ pc' = IF exc = "none" THEN "caps" ELSE "exit"
    /\ UNCHANGED <<parser, ninst, which_innoextract, idx, exc, raised_in, calls,
                   checks_passed, mbr, part_start_offset, enumerated, paths,
                   capsules, cap_i, attempted, processed, search, handle>>

\* lenovo_iso.FileParser.__exit__
Iso_exit ==
    /\ pc = "exit"
    /\ parser = "lenovo_iso"
    /\ held' = held \ {"iso_handle"}
    /\ pc' = IF exc = "none" THEN "loop" ELSE "aborted"
    /\ UNCHANGED <<parser, ninst, which_innoextract, idx, exc, raised_in, calls,
                   checks_passed, mbr, part_start_offset, enumerated, paths,
                   capsules, cap_i, attempted, processed, search, handle>>

\* lenovo_exe.FileParser.__exit__
Exe_exit ==
    /\ pc = "exit"
    /\ parser = "lenovo_exe"
    /\ held' = held \ {"tempdir"}
    /\ pc' = IF exc = "none" THEN "loop" ELSE "aborted"
    /\ UNCHANGED <<parser, ninst, which_innoextract, idx, exc, raised_in, calls,
                   checks_passed, mbr, part_start_offset, enumerated, paths,
                   capsules, cap_i, attempted, processed, search, handle>>

\* the state when the installers loop is reached
Init ==
    /\ parser \in {"lenovo_iso", "lenovo_exe"}
    /\ ninst \in 0..MaxInstallers
    /\ which_innoextract \in BOOLEAN
    /\ idx = 0
    /\ pc = "loop"
    /\ exc = "none"
    /\ raised_in = "none"
    /\ held = {}
    /\ calls = 0
    /\ checks_passed = FALSE
    /\ mbr = <<>>
    /\ part_start_offset = -1
    /\ enumerated = {}
    /\ paths = <<>>
    /\ capsules = <<>>
    /\ cap_i = 0
    /\ attempted = {}
    /\ processed = {}
    /\ search = Idle
    /\ handle = Idle

Next ==
    \/ NextInstaller
    \/ BatchDone
    \/ Iso_init
    \/ Iso_enter
    \/ Exe_init
    \/ Exe_enter
    \/ NextCapsule
    \/ Iso_capsule_enter
    \/ Exe_capsule_enter
    \/ FindAndWrite
    \/ Capsule_exit
    \/ Iso_exit
    \/ Exe_exit

Spec == Init /\ [][Next]_vars

(* ------------------------------------------------------------------ *)
(* Claims about the containers and the installers loop (Spec)          *)
(* ------------------------------------------------------------------ *)
Terminal == pc \in {"done", "aborted"}

\* s ends with '.FL' followed by one or more decimal digits
EndsWithCapsuleSuffix(s) ==
    \E i \in 1..Len(s) :
        /\ i + 3 <= Len(s)
        /\ s[i] = "." /\ s[i + 1] = "F" /\ s[i + 2] = "L"
        /\ \A j \in (i + 3)..Len(s) : s[j] \in Digits

\* C1: once a container is entered, the names list_capsules() returns are
\* exactly the basenames, among the enumerated paths, that end with '.FL'
\* and digits: nothing else is listed and none is left out.
C1_ListedExactlySuffixMatches ==
    pc = "caps" =>
        Range(list_capsules) =
            {LastSegment(p) : p \in {q \in enumerated : EndsWithCapsuleSuffix(LastSegment(q))}}

\* C2: for every partition table parsed, the layout is accepted and the
\* volume opened at lba_start of partition 0 times 512 exactly when
\* partition 0 is non-zero and partitions 1, 2, 3 are zero; otherwise the
\* ValueError is raised, nothing is mounted and no capsule is listed.
C2_PartitionValidation ==
    mbr # <<>> =>
        LET single == mbr[1] # 0 /\ mbr[2] = 0 /\ mbr[3] = 0 /\ mbr[4] = 0
        IN  /\ single <=> part_start_offset # -1
            /\ single => part_start_offset = mbr[1] * 512
            /\ ~single => /\ pc = "aborted"
                          /\ exc = "ValueError"
                          /\ raised_in = "__enter__"
                          /\ list_capsules = <<>>

\* C2 (case reached): a table with only partition 0 populated was accepted
\* and the capsules of the volume at 63 * 512 are being listed
C2_Witness ==
    /\ mbr = <<63, 0, 0, 0>>
    /\ part_start_offset = 32256
    /\ pc = "caps"
    /\ list_capsules # <<>>

\* C3: when the program has ended, and the only failures were of the kinds
\* the claim names (a capsule's caught search failures, a FileParser's
\* __init__ or __enter__), every input file of the batch was given its
\* FileParser: a failed file did not keep the later ones from being processed.
C3_FailedFileDoesNotAbortBatch ==
    (Terminal /\ raised_in \in {"none", "__init__", "__enter__"}) =>
        attempted = 1..ninst

\* C3 (capsule half, reached): a capsule whose search failed with a caught
\* error was followed by the next capsule of the same container
C3_CapsuleWitness ==
    /\ <<1, "FileNotFoundError">> \in processed
    /\ \E o \in {"written", "NotImplementedError"} : <<2, o>> \in processed
    /\ pc = "c_exit"

\* C4: when the program has ended, normally or by an exception, every
\* resource acquired (ISO handle, temporary directory, capsule handle) has
\* been released by its close() or cleanup().
C4_AllReleasedAtExit ==
    Terminal => held = {}

\* C9: in the installer backend the external tool is run (to list or to
\* extract) only by a FileParser that passed both checks of its
\* constructor; with the tool missing, no run is ever made and no capsule
\* name is ever available.
C9_ChecksBeforeTool ==
    parser = "lenovo_exe" =>
        /\ calls > 0 => checks_passed
        /\ ~which_innoextract =>
              /\ calls = 0
              /\ list_capsules = <<>>
              /\ pc \notin {"enter", "caps", "c_enter", "search", "c_exit", "exit"}

\* C9 (case reached): construction failed on the missing tool
C9_Witness ==
    /\ parser = "lenovo_exe"
    /\ ~which_innoextract
    /\ pc = "aborted"
    /\ exc = "RuntimeError"
    /\ raised_in = "__init__"
    /\ calls = 0

\* C10: every candidate path found can be opened through some listed name,
\* and there are as many listed names as candidate paths.
C10_EveryCandidateOpenable ==
    pc = "caps" =>
        /\ Len(list_capsules) = Len(paths)
        /\ \A i \in 1..Len(paths) :
              \E n \in Range(list_capsules) : DictGet(capsules, n) = paths[i]

(* ------------------------------------------------------------------ *)
(* Firmware trees                                                      *)
(* A tree is a sequence of nodes below a root numbered 0; node i hangs *)
(* under parent < i, and iterate_objects() of a node yields its        *)
(* children in the order they were added.                              *)
(* ------------------------------------------------------------------ *)
G_ab == <<"a", "b">>
G_AB == <<"A", "B">>
G_cd == <<"c", "d">>

\* str.lower() on the hexadecimal letters
LowerChar(c) ==
    CASE c = "A" -> "a" [] c = "B" -> "b" [] c = "C" -> "c"
      [] c = "D" -> "d" [] c = "E" -> "e" [] c = "F" -> "f"
      [] OTHER -> c
Lower(str) == [i \in 1..Len(str) |-> LowerChar(str[i])]

\* section type of a PE32 image
PE32_SECTION == 16

\* the kinds of node the model draws from: a File (of type 7, a driver), a
\* GUID-defined section (type 2) carrying a requested GUID, a PE32 section
FileNode(guid) == [type |-> "FirmwareFile", guid |-> guid, attrs_type |-> 7]
SectionNode == [type |-> "FirmwareFileSystemSection", guid |-> G_ab,
                attrs_type |-> 2]
ImageNode == [type |-> "FirmwareFileSystemSection", guid |-> <<>>,
              attrs_type |-> PE32_SECTION]
NodeKinds == {FileNode(G_ab), FileNode(G_AB), FileNode(G_cd), SectionNode, ImageNode}

Trees ==
    UNION {{t \in [1..n -> [parent : 0..(n - 1), node : NodeKinds]] :
               \A i \in 1..n : t[i].parent < i} : n \in 1..MaxNodes}

\* args.GUID as given on the command line
GuidLists == {<<G_ab>>, <<G_AB>>, <<G_cd>>, <<G_AB, G_cd>>}

\* firmware_tree.iterate_objects(): the children of node p, as node numbers
RECURSIVE ChildrenFrom(_, _, _)
ChildrenFrom(tree, p, i) ==
    IF i > Len(tree) THEN <<>>
    ELSE (IF tree[i].parent = p THEN <<i>> ELSE <<>>) \o ChildrenFrom(tree, p, i + 1)

iterate_objects(tree, p) == ChildrenFrom(tree, p, 1)

(* ------------------------------------------------------------------ *)
(* uefi-extract.py: find_file_by_guid, find_PE32, find_PEs             *)
(* ------------------------------------------------------------------ *)
\* the for loop of find_file_by_guid_core over the objects still to visit
RECURSIVE find_file_by_guid_loop(_, _, _)
find_file_by_guid_loop(tree, objs, guids) ==
    IF objs = <<>> THEN <<>>
    ELSE LET obj == tree[Head(objs)].node
         IN  (IF obj.type = "FirmwareFile" /\ obj.guid \in Range(guids)
              THEN <<<<obj.guid, Head(objs)>>>>
              ELSE <<>>)
             \o find_file_by_guid_loop(tree, iterate_objects(tree, Head(objs)), guids)
             \o find_file_by_guid_loop(tree, Tail(objs), guids)

find_file_by_guid_core(tree, p, guids) ==
    find_file_by_guid_loop(tree, iterate_objects(tree, p), guids)

find_file_by_guid(tree, guids) ==
    find_file_by_guid_core(tree, 0, [i \in 1..Len(guids) |-> Lower(guids[i])])

RECURSIVE find_PE32(_, _)
RECURSIVE find_PE32_loop(_, _)
find_PE32_loop(tree, objs) ==
    IF objs = <<>> THEN <<>>
    ELSE find_PE32(tree, Head(objs)) \o find_PE32_loop(tree, Tail(objs))

find_PE32(tree, n) ==
    IF tree[n].node.attrs_type = PE32_SECTION
    THEN <<n>>
    ELSE find_PE32_loop(tree, iterate_objects(tree, n))

\* the last loop of find_PEs: pes[guid].extend(find_PE32(file))
RECURSIVE CollectPEs(_, _)
CollectPEs(tree, found_files) ==
    IF found_files = <<>> THEN <<>>
    ELSE LET pes  == CollectPEs(tree, SubSeq(found_files, 1, Len(found_files) - 1))
             guid == found_files[Len(found_files)][1]
             file == found_files[Len(found_files)][2]
             old  == IF DictHas(pes, guid) THEN DictGet(pes, guid) ELSE <<>>
         IN  DictSet(pes, guid, old \o find_PE32(tree, file))

\* the same without the check for an empty found_files
find_PEs_without_raise(parser_type, tree, guids) ==
    IF parser_type = "unknown"
    THEN [raised |-> "NotImplementedError", found_files |-> <<>>, pes |-> <<>>]
    ELSE [raised |-> "none", found_files |-> find_file_by_guid(tree, guids),
          pes |-> CollectPEs(tree, find_file_by_guid(tree, guids))]

\* find_PEs: what it raises, its found_files and the dictionary it returns
find_PEs(parser_type, tree, guids) ==
    IF parser_type = "unknown"
    THEN [raised |-> "NotImplementedError", found_files |-> <<>>, pes |-> <<>>]
    ELSE LET found_files == find_file_by_guid(tree, guids)
         IN  IF Len(found_files) = 0
             THEN [raised |-> "FileNotFoundError", found_files |-> found_files, pes |-> <<>>]
             ELSE [raised |-> "none", found_files |-> found_files,
                   pes |-> CollectPEs(tree, found_files)]

\* the installers loop stands still while a single call is examined
BatchIdle ==
    /\ parser = "lenovo_iso"
    /\ ninst = 0
    /\ which_innoextract = TRUE
    /\ idx = 0
    /\ pc = "idle"
    /\ exc = "none"
    /\ raised_in = "none"
    /\ held = {}
    /\ calls = 0
    /\ checks_passed = FALSE
    /\ mbr = <<>>
    /\ part_start_offset = -1
    /\ enumerated = {}
    /\ paths = <<>>
    /\ capsules = <<>>
    /\ cap_i = 0
    /\ attempted = {}
    /\ processed = {}

SearchInit ==
    /\ BatchIdle
    /\ handle = Idle
    /\ \E tree \in Trees, guids \in GuidLists :
          search = [at |-> "called", tree |-> tree, guids |-> guids]

\* pes = find_PEs(c.read(), args.GUID)
Call_find_PEs ==
    /\ search.at = "called"
    /\ \E parser_type \in {"unknown", "uefi"} :
          search' = [at |-> "returned", tree |-> search.tree, guids |-> search.guids,
                     parser_type |-> parser_type,
                     result |-> find_PEs(parser_type, search.tree, search.guids)]
    /\ UNCHANGED <<batch_vars, handle>>

SearchNext == Call_find_PEs

SearchSpec == SearchInit /\ [][SearchNext]_vars

(* ------------------------------------------------------------------ *)
(* Claims about the firmware-tree search (SearchSpec)                  *)
(* ------------------------------------------------------------------ *)
\* the descendants of node p in depth-first pre-order
RECURSIVE Preorder(_, _)
RECURSIVE PreorderOfAll(_, _)
PreorderOfAll(tree, nodes) ==
    IF nodes = <<>> THEN <<>>
    ELSE <<Head(nodes)>> \o Preorder(tree, Head(nodes)) \o PreorderOfAll(tree, Tail(nodes))

Preorder(tree, p) ==
    PreorderOfAll(tree, SelectSeq([i \in 1..Len(tree) |-> i], LAMBDA i : tree[i].parent = p))

IsFile(tree, n) == tree[n].node.type = "FirmwareFile"
IsImage(tree, n) == tree[n].node.attrs_type = PE32_SECTION

\* node n is a File whose GUID equals a requested one, letter case ignored
MatchesIgnoringCase(tree, guids, n) ==
    /\ IsFile(tree, n)
    /\ \E k \in 1..Len(guids) : Lower(tree[n].node.guid) = Lower(guids[k])

\* node n is a File whose GUID, as stored, is one of the lowercased requests
MatchesAsStored(tree, guids, n) ==
    /\ IsFile(tree, n)
    /\ \E k \in 1..Len(guids) : tree[n].node.guid = Lower(guids[k])

StoredLowercase(tree) ==
    \A n \in 1..Len(tree) : tree[n].node.guid = Lower(tree[n].node.guid)

Searched == search.at = "returned" /\ search.parser_type = "uefi"

RECURSIVE Concat(_)
Concat(lists) ==
    IF lists = <<>> THEN <<>> ELSE Head(lists) \o Concat(Tail(lists))

\* C5: the nodes find_file_by_guid reports are, in pre-order and once each,
\* the File nodes whose GUID equals a requested GUID when both sides are
\* compared without regard to letter case.
C5_FilesMatchedIgnoringCase ==
    Searched =>
        [i \in 1..Len(search.result.found_files) |-> search.result.found_files[i][2]]
          = SelectSeq(Preorder(search.tree, 0),
                      LAMBDA n : MatchesIgnoringCase(search.tree, search.guids, n))

\* C6: when find_PEs returns, the list of a GUID is the concatenation, over
\* the File nodes found for that GUID in the order found, of all the Image
\* nodes below that File node in pre-order, an Image below another Image
\* included.
C6_AllImagesCollected ==
    (Searched /\ search.result.raised = "none") =>
        \A k \in 1..Len(search.result.pes) :
            LET guid  == search.result.pes[k][1]
                files == SelectSeq(search.result.found_files, LAMBDA f : f[1] = guid)
            IN  search.result.pes[k][2] =
                    Concat([i \in 1..Len(files) |->
                               SelectSeq(Preorder(search.tree, files[i][2]),
                                         LAMBDA n : IsImage(search.tree, n))])

\* C7: on a parsed tree find_PEs raises FileNotFoundError exactly when no
\* File node carries a requested GUID (compared as find_file_by_guid
\* compares it; on a tree whose GUIDs are stored in lowercase, as the parser
\* writes them, that is the comparison without regard to letter case);
\* when it returns, the dictionary has a key for the GUID of every
\* matching File node, so it is never empty, and a GUID none of whose File
\* nodes has an Image below it maps to the empty list.
C7_NotFoundIffNoMatch ==
    Searched =>
        LET tree    == search.tree
            nodes   == 1..Len(tree)
            matched == {n \in nodes : MatchesAsStored(tree, search.guids, n)}
            r       == search.result
        IN  /\ r.raised \in {"none", "FileNotFoundError"}
            /\ r.raised = "FileNotFoundError" <=> matched = {}
            /\ StoredLowercase(tree) =>
                  (r.raised = "FileNotFoundError" <=>
                      ~ \E n \in nodes : MatchesIgnoringCase(tree, search.guids, n))
            /\ r.raised = "FileNotFoundError" => r.pes = <<>>
            /\ r.raised = "none" =>
                  /\ r.pes # <<>>
                  /\ \A n \in matched :
                        /\ DictHas(r.pes, tree[n].node.guid)
                        /\ (\A m \in matched :
                               tree[m].node.guid = tree[n].node.guid
                                  => ~ \E d \in Range(Preorder(tree, m)) : IsImage(tree, d))
                              => DictGet(r.pes, tree[n].node.guid) = <<>>

\* C7 (case reached): a File node matched, nothing below it is an Image, and
\* find_PEs returned the GUID with an empty list
C7_Witness ==
    /\ Searched
    /\ search.result.raised = "none"
    /\ search.result.pes = <<<<G_ab, <<>>>>>>
    /\ Len(search.tree) = 2
    /\ search.tree[2].parent = 1
    /\ search.tree[2].node = SectionNode

(* ------------------------------------------------------------------ *)
(* Capsule handles: LenovoISOCapsule and LenovoExeCapsule              *)
(* ------------------------------------------------------------------ *)
Min(a, b) == IF a < b THEN a ELSE b

\* bytes a file object of `filesize` bytes at position `pos` returns for read(size)
ReadCount(filesize, pos, size) ==
    IF size < 0 THEN filesize - pos ELSE Min(size, filesize - pos)

\* f.open(name) was called for a listed name; the handle is not entered yet
HandleInit ==
    /\ BatchIdle
    /\ search = Idle
    /\ \E backend \in {"lenovo_iso", "lenovo_exe"}, filesize \in 0..MaxFileLen :
          handle = [at |-> "opened", backend |-> backend, filesize |-> filesize,
                    pos |-> 0, obtained |-> 0, exhausted |-> FALSE,
                    size |-> -1, ncalls |-> 0]

\* LenovoISOCapsule.__enter__
Iso_handle_enter ==
    /\ handle.at = "opened"
    /\ handle.backend = "lenovo_iso"
    /\ handle' = [handle EXCEPT !.at = "entered", !.pos = 0]
    /\ UNCHANGED <<batch_vars, search>>

\* LenovoExeCapsule.__enter__
Exe_handle_enter ==
    /\ handle.at = "opened"
    /\ handle.backend = "lenovo_exe"
    /\ \E returncode \in {0, 1} :
          handle' = IF returncode # 0
                    THEN [handle EXCEPT !.at = "RuntimeError"]
                    ELSE [handle EXCEPT !.at = "entered", !.pos = 0]
    /\ UNCHANGED <<batch_vars, search>>

\* read(size) of both handles, callable in any state of an entered handle: it
\* returns the bytes from the position on and moves the position past them.
\* `obtained` counts the bytes returned until the end of the file was first
\* reported (read(-1), or a read that returned nothing); later reads still
\* move the position and leave the count alone
Handle_read ==
    /\ handle.at = "entered"
    /\ handle.ncalls < MaxHandleCalls
    /\ \E size \in {-1, 1, 2} :
          LET n == ReadCount(handle.filesize, handle.pos, size)
          IN  handle' = [handle EXCEPT !.pos = handle.pos + n,
                                       !.obtained = IF handle.exhausted
                                                    THEN handle.obtained
                                                    ELSE handle.obtained + n,
                                       !.exhausted = (handle.exhausted \/ size < 0 \/ n = 0),
                                       !.ncalls = handle.ncalls + 1]
    /\ UNCHANGED <<batch_vars, search>>

\* LenovoISOCapsule.size: the size field of a second handle on the same path
Iso_handle_size ==
    /\ handle.at = "entered"
    /\ handle.backend = "lenovo_iso"
    /\ handle.ncalls < MaxHandleCalls
    /\ handle' = [handle EXCEPT !.size = handle.filesize,
                                !.ncalls = handle.ncalls + 1]
    /\ UNCHANGED <<batch_vars, search>>

\* LenovoExeCapsule.size: seek(0, 2), tell(), seek(0) on the handle itself
Exe_handle_size ==
    /\ handle.at = "entered"
    /\ handle.backend = "lenovo_exe"
    /\ handle.ncalls < MaxHandleCalls
    /\ handle' = [handle EXCEPT !.size = handle.filesize,
                                !.pos = 0,
                                !.ncalls = handle.ncalls + 1]
    /\ UNCHANGED <<batch_vars, search>>

\* __exit__ of both handles
Handle_exit ==
    /\ handle.at = "entered"
    /\ handle' = [handle EXCEPT !.at = "closed"]
    /\ UNCHANGED <<batch_vars, search>>

HandleNext ==
    \/ Iso_handle_enter
    \/ Exe_handle_enter
    \/ Handle_read
    \/ Iso_handle_size
    \/ Exe_handle_size
    \/ Handle_exit

HandleSpec == HandleInit /\ [][HandleNext]_vars

(* ------------------------------------------------------------------ *)
(* Claim about the capsule handles (HandleSpec)                        *)
(* ------------------------------------------------------------------ *)
\* C8: on an entered handle that has been read to its end, what size()
\* returned equals the number of bytes the reads returned, whether size()
\* was called before the reads, between two of them or after them.
C8_SizeEqualsBytesRead ==
    (handle.at \in {"entered", "closed"} /\ handle.exhausted /\ handle.size # -1) =>
        handle.obtained = handle.size

====
